---- MODULE Spec2Model ----
(***************************************************************************)
(* A model of ai_translator.py: the AITranslator adapter (URL              *)
(* normalisation, request body construction, one POST and the              *)
(* interpretation of its response) and the module-level singleton          *)
(* (init_translator / translate).                                          *)
(*                                                                         *)
(* Strings are sequences of tokens.  A token is one character (":", "/",   *)
(* "?", "#", ";", "[", " ") or a run of letters that holds none of those   *)
(* characters ("http", "chat", "completions", "x", "X", ...).              *)
(***************************************************************************)
EXTENDS Integers, Sequences, FiniteSets, TLC

VARIABLES
    translator,   \* the module global _translator: <<>> is None, <<inst>> an instance
    lastInit,     \* history: the instance built by the most recent init_translator
    task,         \* per awaiting task: the state of its translate() call
    urlPc, urlIn, urlOut,      \* _get_api_url applied to one configured base URL
    bodyPc, bodyIn, bodyOut    \* __init__ and _build_request_body applied to one input

vars == <<translator, lastInit, task, urlPc, urlIn, urlOut, bodyPc, bodyIn, bodyOut>>

----------------------------------------------------------------------------
(* Bounds of the model *)

MaxFreeLen == 2      \* tokens of the freely enumerated part of a base URL's path
MaxLangLen == 2      \* tokens of source_lang and of target_lang
MaxTextLen == 2      \* tokens of the text to translate
MaxContentLen == 2   \* tokens of choices[0].message.content

----------------------------------------------------------------------------
(* Strings *)

SeqsUpTo(S, n) == UNION {[1..k -> S] : k \in 0..n}

\* s[i..] and s[..i-1], as Python's s[i:] and s[:i] with 1-based i
From(s, i) == SubSeq(s, i, Len(s))
Upto(s, i) == SubSeq(s, 1, IF i < Len(s) THEN i ELSE Len(s))

\* str.find: the first index of token c at or after `start`, 0 when there is none
FindFrom(s, c, start) ==
    LET hits == {i \in start..Len(s) : s[i] = c}
    IN IF hits = {} THEN 0 ELSE CHOOSE i \in hits : \A j \in hits : i <= j

Find(s, c) == FindFrom(s, c, 1)

\* str.rfind
RFind(s, c) ==
    LET hits == {i \in 1..Len(s) : s[i] = c}
    IN IF hits = {} THEN 0 ELSE CHOOSE i \in hits : \A j \in hits : i >= j

\* str.endswith
EndsWith(s, suffix) ==
    /\ Len(s) >= Len(suffix)
    /\ SubSeq(s, Len(s) - Len(suffix) + 1, Len(s)) = suffix

\* `sub in s`
Contains(s, sub) ==
    \E i \in 0..(Len(s) - Len(sub)) : SubSeq(s, i + 1, i + Len(sub)) = sub

\* str.strip() over the one whitespace token of the model
Strip(s) ==
    LET keep == {i \in 1..Len(s) : s[i] # " "}
    IN IF keep = {} THEN <<>>
       ELSE SubSeq(s, CHOOSE i \in keep : \A j \in keep : i <= j,
                      CHOOSE i \in keep : \A j \in keep : i >= j)

----------------------------------------------------------------------------
(* urllib.parse, as the code uses it (CPython 3.11's urlsplit, urlparse,   *)
(* urlunsplit, urlunparse)                                                 *)

Letters == {"http", "x", "X", "chat", "completions"}

\* str.lower on a token
LowerTok(c) == IF c = "X" THEN "x" ELSE c
Lower(s) == [i \in 1..Len(s) |-> LowerTok(s[i])]

\* the schemes of urllib's uses_netloc and uses_params that the model can spell
UsesNetloc(scheme) == scheme \in {<<>>, <<"http">>}
UsesParams(scheme) == scheme \in {<<>>, <<"http">>}

\* urlsplit's scheme: url[:i].lower() when i > 0 and url[:i] is letters only
SplitScheme(url) ==
    LET i == Find(url, ":")
    IN IF i > 1 /\ \A k \in 1..(i - 1) : url[k] \in Letters
       THEN [scheme |-> Lower(Upto(url, i - 1)), rest |-> From(url, i + 1)]
       ELSE [scheme |-> <<>>, rest |-> url]

\* _splitnetloc(url, 2) when url[:2] == '//': the netloc ends before the first of
\* "/?#"; a "[" without its "]" in it raises ValueError("Invalid IPv6 URL")
SplitNetloc(url) ==
    IF Upto(url, 2) # <<"/", "/">> THEN [ok |-> TRUE, netloc |-> <<>>, rest |-> url]
    ELSE LET hits  == {i \in 3..Len(url) : url[i] \in {"/", "?", "#"}}
             delim == IF hits = {} THEN Len(url) + 1
                      ELSE CHOOSE i \in hits : \A j \in hits : i <= j
         IN [ok |-> Find(SubSeq(url, 3, delim - 1), "[") = 0,
             netloc |-> SubSeq(url, 3, delim - 1),
             rest |-> From(url, delim)]

\* url.split(c, 1) when c is in url
SplitAt(url, c) ==
    LET i == Find(url, c)
    IN IF i > 0 THEN [head |-> Upto(url, i - 1), tail |-> From(url, i + 1)]
       ELSE [head |-> url, tail |-> <<>>]

\* _splitparams(url), when the scheme uses params and ";" is in url
SplitParams(scheme, url) ==
    LET i == IF ~UsesParams(scheme) \/ Find(url, ";") = 0 THEN 0
             ELSE IF Find(url, "/") # 0 THEN FindFrom(url, ";", RFind(url, "/"))
             ELSE Find(url, ";")
    IN IF i > 0 THEN [head |-> Upto(url, i - 1), tail |-> From(url, i + 1)]
       ELSE [head |-> url, tail |-> <<>>]

ParseResult(ok, scheme, netloc, path, params, query, fragment) ==
    [ok |-> ok, scheme |-> scheme, netloc |-> netloc, path |-> path,
     params |-> params, query |-> query, fragment |-> fragment]

ParseQuery(ok, scheme, netloc, url, fragment) ==
    ParseResult(ok, scheme, netloc,
                SplitParams(scheme, SplitAt(url, "?").head).head,
                SplitParams(scheme, SplitAt(url, "?").head).tail,
                SplitAt(url, "?").tail, fragment)

ParseNetloc(scheme, nl) ==
    ParseQuery(nl.ok, scheme, nl.netloc, SplitAt(nl.rest, "#").head,
               SplitAt(nl.rest, "#").tail)

\* urlparse(url): ok is FALSE when it raises
urlparse(url) ==
    ParseNetloc(SplitScheme(url).scheme, SplitNetloc(SplitScheme(url).rest))

\* urlunparse((scheme, netloc, path, params, query, fragment))
urlunparse(scheme, netloc, path, params, query, fragment) ==
    LET u1 == IF params # <<>> THEN path \o <<";">> \o params ELSE path
        u2 == IF netloc # <<>>
                 \/ (scheme # <<>> /\ UsesNetloc(scheme) /\ Upto(u1, 2) # <<"/", "/">>)
              THEN <<"/", "/">> \o netloc
                   \o (IF u1 # <<>> /\ u1[1] # "/" THEN <<"/">> ELSE <<>>) \o u1
              ELSE u1
        u3 == IF scheme # <<>> THEN scheme \o <<":">> \o u2 ELSE u2
        u4 == IF query # <<>> THEN u3 \o <<"?">> \o query ELSE u3
    IN IF fragment # <<>> THEN u4 \o <<"#">> \o fragment ELSE u4

\* the literal '/chat/completions'
ChatCompletions == <<"/", "chat", "/", "completions">>

\* the auto-completion without the test for a trailing "/"
CompletedPathAlwaysSlash(path) == path \o ChatCompletions

\* the path after auto-completion: one "/" between the path and chat/completions
CompletedPath(path) ==
    IF EndsWith(path, <<"/">>) THEN path \o <<"chat", "/", "completions">>
    ELSE path \o ChatCompletions

\* AITranslator._get_api_url, on the instance's api_url
_get_api_url(api_url) ==
    LET parsed == urlparse(api_url)
    IN IF ~parsed.ok THEN api_url
       ELSE IF EndsWith(parsed.path, ChatCompletions) THEN api_url
       ELSE urlunparse(parsed.scheme, parsed.netloc, CompletedPath(parsed.path),
                       parsed.params, parsed.query, parsed.fragment)

----------------------------------------------------------------------------
(* The instance and the request it builds *)

\* the module constant DEFAULT_SYSTEM_PROMPT, as one token
DEFAULT_SYSTEM_PROMPT == <<"You are a translator for Twitch chat messages. ...">>

\* the default of the temperature parameter, 0.3, in tenths
DefaultTemperature == 3

\* an optional string: <<>> is None, <<s>> is the string s; Python's truth of it
None == <<>>
Truthy(opt) == opt # None /\ opt[1] # <<>>

\* AITranslator.__init__
AITranslator(api_url, api_key, model, system_prompt, temperature, debug) ==
    [api_url |-> api_url,
     api_key |-> api_key,
     model |-> model,
     system_prompt |-> IF Truthy(system_prompt) THEN system_prompt[1]
                       ELSE DEFAULT_SYSTEM_PROMPT,
     temperature |-> temperature,
     debug |-> debug]

\* the f-string with the target language left out
UserMessageNoTarget(text, source_lang, target_lang) ==
    <<"Source Language: ">> \o source_lang
    \o <<"LF", "Text to translate:", "LF", "QQQ", "LF">> \o text
    \o <<"LF", "QQQ", "LF", "Translation:">>

\* the f-string of _build_request_body ("LF" is a line feed, "QQQ" the three quotes)
UserMessage(text, source_lang, target_lang) ==
    <<"Source Language: ">> \o source_lang
    \o <<"LF", "Target Language: ">> \o target_lang
    \o <<"LF", "Text to translate:", "LF", "QQQ", "LF">> \o text
    \o <<"LF", "QQQ", "LF", "Translation:">>

\* AITranslator._build_request_body
_build_request_body(self, text, source_lang, target_lang) ==
    [model |-> self.model,
     messages |-> << [role |-> "system", content |-> self.system_prompt],
                     [role |-> "user",
                      content |-> UserMessage(text, source_lang, target_lang)] >>,
     temperature |-> self.temperature]

\* the headers of translate()
Headers(self) ==
    [ContentType |-> "application/json",
     Authorization |-> <<"Bearer ">> \o self.api_key]

----------------------------------------------------------------------------
(* Responses *)

\* the statuses a response may carry: 101 is the one 1xx status aiohttp hands to
\* the caller, 300 stands for the 3xx responses it does not follow
Statuses == {101, 200, 201, 300, 401, 404, 429, 500, 503}

\* aiohttp's ClientResponse.ok
ResponseOk(status) == 400 > status

ContentChars == {" ", "x"}

\* a response body: json says whether it parses as JSON; data is the type of the
\* top-level value; choices, message and content say what each key holds
Body(json, data, choices, message, content, str) ==
    [json |-> json, data |-> data, choices |-> choices, message |-> message,
     content |-> content, str |-> str]

NoBody == Body(FALSE, "none", "absent", "absent", "absent", <<>>)

Bodies ==
    {Body(FALSE, "text", "absent", "absent", "absent", <<>>),      \* not JSON
     Body(TRUE, "array", "absent", "absent", "absent", <<>>),      \* []
     Body(TRUE, "object", "absent", "absent", "absent", <<>>),     \* {}
     Body(TRUE, "object", "empty", "absent", "absent", <<>>),      \* {"choices": []}
     Body(TRUE, "object", "null", "absent", "absent", <<>>),       \* {"choices": null}
     Body(TRUE, "object", "list", "absent", "absent", <<>>),       \* {"choices": [{}]}
     Body(TRUE, "object", "list", "null", "absent", <<>>),         \* message: null
     Body(TRUE, "object", "list", "object", "absent", <<>>),       \* message: {}
     Body(TRUE, "object", "list", "object", "null", <<>>),         \* content: null
     Body(TRUE, "object", "list", "object", "number", <<>>)}       \* content: 5
    \cup {Body(TRUE, "object", "list", "object", "string", s) :
              s \in SeqsUpTo(ContentChars, MaxContentLen)}

\* await response.json() and line 170's chain of .get and [0]: the exception it
\* raises (exc) or the value of translated_text (kind, str)
Value(kind, str) == [exc |-> "", kind |-> kind, str |-> str]
Raises(exc) == [exc |-> exc, kind |-> "", str |-> <<>>]

TranslatedText(b) ==
    IF ~b.json THEN Raises("JSONDecodeError")
    ELSE IF b.data # "object" THEN Raises("AttributeError")
    ELSE IF b.choices = "empty" THEN Raises("IndexError")
    ELSE IF b.choices = "null" THEN Raises("TypeError")
    ELSE LET message == IF b.choices = "absent" THEN "absent" ELSE b.message
         IN IF message = "null" THEN Raises("AttributeError")
            ELSE IF message = "absent" \/ b.content = "absent" THEN Value("string", <<>>)
            ELSE Value(b.content, b.str)

\* `not translated_text`
Falsy(v) == v.kind = "null" \/ (v.kind = "string" /\ v.str = <<>>)

----------------------------------------------------------------------------
(* Exceptions and the except clauses of translate() *)

Exceptions == {"TimeoutError", "ClientError", "ContentTypeError", "JSONDecodeError",
               "AttributeError", "IndexError", "TypeError", "RuntimeError",
               "CancelledError"}

\* CancelledError as a subclass of Exception (as before Python 3.8)
IsExceptionWithCancelled(e) == TRUE

\* aiohttp.ContentTypeError is a ClientError; asyncio.CancelledError is a
\* BaseException and no Exception
IsClientError(e) == e \in {"ClientError", "ContentTypeError"}
IsException(e) == e # "CancelledError"

\* the except clauses without the final `except Exception`
ExceptClauseNoCatchAll(e) ==
    IF e = "TimeoutError" THEN "API request timeout"
    ELSE IF IsClientError(e) THEN "Network error"
    ELSE ""

\* the message of the except clause that catches e, "" when none does
ExceptClause(e) ==
    IF e = "TimeoutError" THEN "API request timeout"
    ELSE IF IsClientError(e) THEN "Network error"
    ELSE IF IsException(e) THEN "Unexpected error"
    ELSE ""

----------------------------------------------------------------------------
(* The translate() call of one task *)

Tasks == {"t1", "t2"}

\* the arguments the callers pass
Url1 == <<"http", ":", "/", "/", "x", "/", "x">>
Url2 == <<"http", ":", "/", "/", "x", "/", "x", "/", "chat", "/", "completions">>
InitArgs == {<<Url1, TRUE>>, <<Url2, FALSE>>}
Texts == {<<>>, <<"x">>}
SourceLang == <<"en">>
TargetLang == <<"ja">>

IdleTask ==
    [pc |-> "idle",         \* idle, post, text, json (the awaits), done, cancelled
     inst |-> <<>>,         \* the instance whose translate() runs, <<>> when none does
     seen |-> <<>>,         \* history: lastInit when the call was made
     text |-> <<>>,         \* the text argument
     posts |-> <<>>,        \* the requests handed to session.post
     conn |-> "none",       \* the request: none, open, closed
     status |-> 0,          \* response.status, 0 before the response
     body |-> NoBody,       \* the body response.json() read
     ret |-> FALSE,         \* the call returned a value
     result |-> <<>>,       \* the value returned
     exc |-> "",            \* the exception raised inside the try block
     log |-> <<>>]          \* the lines printed by the call

InFlight == {"post", "text", "json"}

\* print(msg) without the test of self.debug
DebugAlways(tk, msg) == Append(tk.log, msg)

\* `if self.debug: print(msg)`
Debug(tk, msg) == IF tk.inst[1].debug THEN Append(tk.log, msg) ELSE tk.log

\* `return value` inside the async with blocks: they close the response and session
Return(tk, value) ==
    [tk EXCEPT !.pc = "done", !.ret = TRUE, !.result = value,
               !.conn = IF @ = "open" THEN "closed" ELSE @]

\* exception e raised at an await or a statement inside the try block
Raise(tk, e) ==
    IF ExceptClause(e) # ""
    THEN Return([tk EXCEPT !.exc = e, !.log = Debug(tk, ExceptClause(e))], <<>>)
    ELSE [tk EXCEPT !.exc = e, !.conn = "closed",
                    !.pc = IF e = "CancelledError" THEN "cancelled" ELSE "done"]

\* `if not text`
TextIsEmpty(text) == text = <<>>

\* AITranslator.translate up to its first await
TranslateStart(tk, self, text, source_lang, target_lang) ==
    LET tk1 == [tk EXCEPT !.inst = <<self>>, !.text = text]
    IN IF TextIsEmpty(text) THEN Return(tk1, <<>>)
       ELSE [tk1 EXCEPT !.pc = "post", !.conn = "open",
                        !.posts = Append(@,
                            [url |-> _get_api_url(self.api_url),
                             json |-> _build_request_body(self, text, source_lang,
                                                          target_lang),
                             headers |-> Headers(self)])]

\* the status checks with one retry of the POST on a server error
OnResponseRetry(tk, status) ==
    LET tk1 == [tk EXCEPT !.status = status]
    IN IF status = 401
       THEN Return([tk1 EXCEPT !.log = Debug(tk, "Invalid API Key")], <<>>)
       ELSE IF status = 429
       THEN Return([tk1 EXCEPT !.log = Debug(tk, "Rate limit exceeded")], <<>>)
       ELSE IF status >= 500 /\ Len(tk.posts) < 2
       THEN [tk EXCEPT !.posts = Append(@, @[1])]
       ELSE IF status >= 500
       THEN Return([tk1 EXCEPT !.log = Debug(tk, "API server error")], <<>>)
       ELSE IF ~ResponseOk(status) THEN [tk1 EXCEPT !.pc = "text"]
       ELSE [tk1 EXCEPT !.pc = "json"]

\* the status checks, in the code's order
OnResponse(tk, status) ==
    LET tk1 == [tk EXCEPT !.status = status]
    IN IF status = 401
       THEN Return([tk1 EXCEPT !.log = Debug(tk, "Invalid API Key")], <<>>)
       ELSE IF status = 429
       THEN Return([tk1 EXCEPT !.log = Debug(tk, "Rate limit exceeded")], <<>>)
       ELSE IF status >= 500
       THEN Return([tk1 EXCEPT !.log = Debug(tk, "API server error")], <<>>)
       ELSE IF ~ResponseOk(status) THEN [tk1 EXCEPT !.pc = "text"]
       ELSE [tk1 EXCEPT !.pc = "json"]

\* after `error_text = await response.text()`
OnText(tk) == Return([tk EXCEPT !.log = Debug(tk, "API error")], <<>>)

\* after `data = await response.json()`
OnJson(tk, b) ==
    LET tk1 == [tk EXCEPT !.body = b]
        v   == TranslatedText(b)
    IN IF v.exc # "" THEN Raise(tk1, v.exc)
       ELSE IF Falsy(v)
       THEN Return([tk1 EXCEPT !.log = Debug(tk, "Empty response from API")], <<>>)
       ELSE IF v.kind # "string" THEN Raise(tk1, "AttributeError")
       ELSE Return(tk1, Strip(v.str))

\* the module-level translate()
GlobalTranslate(tk, text, source_lang, target_lang) ==
    LET tk1 == [tk EXCEPT !.seen = lastInit]
    IN IF translator = None
       THEN Return([tk1 EXCEPT !.text = text,
                               !.log = Append(@, "Translator not initialized")], <<>>)
       ELSE TranslateStart(tk1, translator[1], text, source_lang, target_lang)

----------------------------------------------------------------------------
(* Actions *)

\* `_translator = AITranslator(...)` in init_translator
SetTranslatorOnce(current, inst) == IF current = None THEN <<inst>> ELSE current

SetTranslator(current, inst) == <<inst>>

PureIdle == UNCHANGED <<urlPc, urlIn, urlOut, bodyPc, bodyIn, bodyOut>>

\* init_translator(api_url, api_key, model, system_prompt, temperature, debug)
init_translator(api_url, debug) ==
    /\ translator' = SetTranslator(translator,
                         AITranslator(api_url, <<"k">>, <<"m">>, None,
                                      DefaultTemperature, debug))
    /\ lastInit' = <<AITranslator(api_url, <<"k">>, <<"m">>, None,
                                  DefaultTemperature, debug)>>
    /\ UNCHANGED task
    /\ PureIdle

\* a task calls the module-level translate(text, source_lang, target_lang)
translate(t, text) ==
    /\ task[t].pc = "idle"
    /\ task' = [task EXCEPT ![t] = GlobalTranslate(@, text, SourceLang, TargetLang)]
    /\ UNCHANGED <<translator, lastInit>>
    /\ PureIdle

\* session.post answers with a response of this status
Respond(t, status) ==
    /\ task[t].pc = "post"
    /\ task' = [task EXCEPT ![t] = OnResponse(@, status)]
    /\ UNCHANGED <<translator, lastInit>>
    /\ PureIdle

\* response.text() delivers the error body
ReadText(t) ==
    /\ task[t].pc = "text"
    /\ task' = [task EXCEPT ![t] = OnText(@)]
    /\ UNCHANGED <<translator, lastInit>>
    /\ PureIdle

\* response.json() reads body b
ReadJson(t, b) ==
    /\ task[t].pc = "json"
    /\ task' = [task EXCEPT ![t] = OnJson(@, b)]
    /\ UNCHANGED <<translator, lastInit>>
    /\ PureIdle

\* an await fails: the 30 s total timeout, a connection or payload error, a wrong
\* content type, anything else
Fail(t, e) ==
    /\ task[t].pc \in InFlight
    /\ e \in {"TimeoutError", "ClientError", "RuntimeError"}
         \/ (e = "ContentTypeError" /\ task[t].pc = "json")
    /\ task' = [task EXCEPT ![t] = Raise(@, e)]
    /\ UNCHANGED <<translator, lastInit>>
    /\ PureIdle

\* the awaiting task is cancelled: CancelledError is raised at the await
Cancel(t) ==
    /\ task[t].pc \in InFlight
    /\ task' = [task EXCEPT ![t] = Raise(@, "CancelledError")]
    /\ UNCHANGED <<translator, lastInit>>
    /\ PureIdle

\* the caller takes the outcome; the task may call again
Collect(t) ==
    /\ task[t].pc \in {"done", "cancelled"}
    /\ task' = [task EXCEPT ![t] = IdleTask]
    /\ UNCHANGED <<translator, lastInit>>
    /\ PureIdle

Init ==
    /\ translator = None
    /\ lastInit = None
    /\ task = [t \in Tasks |-> IdleTask]
    /\ urlPc = "off" /\ urlIn = <<>> /\ urlOut = <<>>
    /\ bodyPc = "off" /\ bodyIn = <<>> /\ bodyOut = <<>>

Next ==
    \/ \E a \in InitArgs : init_translator(a[1], a[2])
    \/ \E t \in Tasks, text \in Texts : translate(t, text)
    \/ \E t \in Tasks, s \in Statuses : Respond(t, s)
    \/ \E t \in Tasks : ReadText(t)
    \/ \E t \in Tasks, b \in Bodies : ReadJson(t, b)
    \/ \E t \in Tasks, e \in Exceptions : Fail(t, e)
    \/ \E t \in Tasks : Cancel(t)
    \/ \E t \in Tasks : Collect(t)

Spec == Init /\ [][Next]_vars

----------------------------------------------------------------------------
(* _get_api_url on its own, over a set of configured base URLs *)

UrlPrefixes ==
    {<<>>, <<"http", ":">>, <<"x", ":">>, <<"/", "/", "x">>,
     <<"http", ":", "/", "/", "x">>, <<"X", ":", "/", "/", "x">>,
     <<"http", ":", "/", "/">>, <<"/", "/", "[">>,
     <<"http", ":", "/", "/", "[", "x">>}
UrlTails ==
    {<<>>, ChatCompletions, ChatCompletions \o <<"/">>,
     <<"chat", "/", "completions">>, <<"/", "chat">>}
UrlEnds ==
    {<<>>, <<"?">>, <<"?", "x">>, <<"#", "x">>, <<"?", "x", "#", "x">>, <<";", "x">>}

Urls ==
    {a \o b \o c \o d : a \in UrlPrefixes, b \in SeqsUpTo({"/", "x", ";"}, MaxFreeLen),
                        c \in UrlTails, d \in UrlEnds}

PureOff ==
    /\ translator = None /\ lastInit = None /\ task = [t \in Tasks |-> IdleTask]

InitUrl ==
    /\ PureOff
    /\ urlPc = "ready" /\ urlIn \in Urls /\ urlOut = <<>>
    /\ bodyPc = "off" /\ bodyIn = <<>> /\ bodyOut = <<>>

\* an instance configured with urlIn computes its endpoint
GetApiUrl ==
    /\ urlPc = "ready"
    /\ urlPc' = "done"
    /\ urlOut' = _get_api_url(urlIn)
    /\ UNCHANGED <<translator, lastInit, task, urlIn, bodyPc, bodyIn, bodyOut>>

NextUrl == GetApiUrl

SpecUrl == InitUrl /\ [][NextUrl]_vars

----------------------------------------------------------------------------
(* __init__ and _build_request_body on their own *)

LangChars == {"e", "j"}
TextChars == {"h", "QQQ"}

BodyInputs ==
    [model : {<<"m1">>, <<"m2">>},
     system_prompt : {None, <<<<>>>>, <<<<"custom">>>>},
     temperature : {0, DefaultTemperature, 20},
     text : SeqsUpTo(TextChars, MaxTextLen),
     source_lang : SeqsUpTo(LangChars, MaxLangLen),
     target_lang : SeqsUpTo(LangChars, MaxLangLen)]

InitBody ==
    /\ PureOff
    /\ urlPc = "off" /\ urlIn = <<>> /\ urlOut = <<>>
    /\ bodyPc = "ready" /\ bodyIn \in BodyInputs /\ bodyOut = <<>>

\* an instance is constructed from bodyIn and builds the request body
BuildRequestBody ==
    /\ bodyPc = "ready"
    /\ bodyPc' = "done"
    /\ bodyOut' = <<_build_request_body(
                        AITranslator(Url1, <<"k">>, bodyIn.model, bodyIn.system_prompt,
                                     bodyIn.temperature, FALSE),
                        bodyIn.text, bodyIn.source_lang, bodyIn.target_lang)>>
    /\ UNCHANGED <<translator, lastInit, task, urlPc, urlIn, urlOut, bodyIn>>

NextBody == BuildRequestBody

SpecBody == InitBody /\ [][NextBody]_vars

----------------------------------------------------------------------------
(* Properties of the translate() call *)

Done(t) == task[t].pc = "done"
\* AITranslator.translate ran for the call of task t
Ran(t) == task[t].inst # None
Success2xx(status) == status \in 200..299

\* the body holds a non-empty string at choices[0].message.content
HasContent(b) ==
    /\ b.json /\ b.data = "object" /\ b.choices = "list" /\ b.message = "object"
    /\ b.content = "string" /\ b.str # <<>>

\* a JSON object whose choices key is absent, or an empty array, or whose first
\* choice has no message, or whose message has no content or an empty one
LacksContent(b) ==
    /\ b.json /\ b.data = "object"
    /\ \/ b.choices \in {"absent", "empty"}
       \/ b.choices = "list" /\ b.message = "absent"
       \/ b.choices = "list" /\ b.message = "object" /\ b.content = "absent"
       \/ b.choices = "list" /\ b.message = "object" /\ b.content = "string"
          /\ b.str = <<>>

\* s without its leading and trailing spaces
RECURSIVE Trimmed(_)
Trimmed(s) ==
    IF s = <<>> THEN s
    ELSE IF Head(s) = " " THEN Trimmed(Tail(s))
    ELSE IF s[Len(s)] = " " THEN Trimmed(SubSeq(s, 1, Len(s) - 1))
    ELSE s

\* the call met a timeout, a connection error or another exception, an error
\* status, or a body that is not JSON or lacks a non-empty string content
FailureOutcome(tk) ==
    \/ tk.exc # ""
    \/ tk.status >= 400
    \/ tk.body # NoBody /\ ~HasContent(tk.body)

C2_OnePost ==
    \A t \in Tasks :
        Ran(t) =>
            /\ Len(task[t].posts) = IF task[t].text = <<>> THEN 0 ELSE 1
            /\ task[t].text = <<>> =>
                   Done(t) /\ task[t].ret /\ task[t].result = <<>>

C2_Witness ==
    /\ \E t \in Tasks :
           Ran(t) /\ Done(t) /\ task[t].status = 503 /\ Len(task[t].posts) = 1
    /\ \E t \in Tasks :
           Ran(t) /\ Done(t) /\ task[t].text = <<>> /\ Len(task[t].posts) = 0

\* C3: a call that completes on a response whose status is outside 200..299
\* has returned "", whatever the body.
C3_NonSuccessIsEmpty ==
    \A t \in Tasks :
        (Done(t) /\ task[t].status # 0 /\ ~Success2xx(task[t].status)) =>
            task[t].ret /\ task[t].result = <<>>

\* C4: a call that read a 2xx response with a non-empty string content has
\* returned that content without its leading and trailing whitespace, and a call
\* returns a non-empty string on no other path.
C4_TrimmedContentOnly ==
    \A t \in Tasks :
        Done(t) =>
            /\ (Success2xx(task[t].status) /\ HasContent(task[t].body)) =>
                   task[t].ret /\ task[t].result = Trimmed(task[t].body.str)
            /\ task[t].result # <<>> =>
                   Success2xx(task[t].status) /\ HasContent(task[t].body)

\* C5: a call that read a 2xx response whose JSON body lacks a usable
\* choices[0].message.content has returned "" and, with debug enabled, has
\* logged the "Empty response from API" line.
C5_EmptyResponse ==
    \A t \in Tasks :
        (Done(t) /\ Success2xx(task[t].status) /\ LacksContent(task[t].body)) =>
            /\ task[t].ret /\ task[t].result = <<>>
            /\ task[t].inst[1].debug => task[t].log = <<"Empty response from API">>

\* C8: a module-level translate call made before any init_translator has
\* returned "" with no request and the not-initialized line; a call made after
\* one runs on the instance built by the most recent init_translator at the
\* time of the call, and its request goes to that instance's endpoint.
C8_PassThrough ==
    \A t \in Tasks :
        task[t].pc # "idle" =>
            IF task[t].seen = None
            THEN /\ ~Ran(t) /\ Done(t) /\ task[t].ret /\ task[t].result = <<>>
                 /\ task[t].posts = <<>>
                 /\ task[t].log = <<"Translator not initialized">>
            ELSE /\ task[t].inst = task[t].seen
                 /\ \A i \in 1..Len(task[t].posts) :
                        /\ task[t].posts[i].url = _get_api_url(task[t].seen[1].api_url)
                        /\ task[t].posts[i].headers = Headers(task[t].seen[1])

C8_Witness ==
    \E t, u \in Tasks :
        /\ task[t].seen # None /\ task[u].seen # None
        /\ task[t].seen # task[u].seen
        /\ task[t].pc = "post" /\ Done(u) /\ task[u].result # <<>>
        /\ translator = task[t].inst

\* C9: a call cancelled in flight delivers no result, its request is closed and
\* it prints nothing; the cancelling step changes neither the global instance
\* nor the call of any other task.
C9_Cancellation ==
    /\ [](\A t \in Tasks :
             (task[t].exc = "CancelledError" \/ task[t].pc = "cancelled") =>
                 /\ task[t].pc = "cancelled" /\ task[t].exc = "CancelledError"
                 /\ ~task[t].ret /\ task[t].result = <<>>
                 /\ task[t].conn = "closed")
    /\ [][\A t \in Tasks :
             (task[t].pc \in InFlight /\ task'[t].pc = "cancelled") =>
                 /\ translator' = translator
                 /\ task'[t].log = task[t].log
                 /\ task'[t].inst = task[t].inst
                 /\ \A u \in Tasks \ {t} : task'[u] = task[u]]_vars

C9_Witness ==
    \E t, u \in Tasks :
        /\ task[t].pc = "cancelled" /\ task[t].status = 200
        /\ task[t].conn = "closed" /\ ~task[t].ret
        /\ Done(u) /\ task[u].ret /\ task[u].result # <<>>

\* a call that returns "" on purpose without a diagnostic: empty text, or a
\* content made of whitespace only
Silent(tk) ==
    \/ tk.text = <<>>
    \/ /\ tk.body.content = "string" /\ tk.body.str # <<>>
       /\ \A i \in 1..Len(tk.body.str) : tk.body.str[i] = " "

\* C10 as stated: with debug enabled every call that returned "" printed
\* exactly one line and no call printed more than one; with debug disabled no
\* call printed any.
C10_OneLinePerFailure ==
    \A t \in Tasks :
        (Ran(t) /\ Done(t)) =>
            /\ Len(task[t].log) <= 1
            /\ ~task[t].inst[1].debug => task[t].log = <<>>
            /\ (task[t].inst[1].debug /\ task[t].ret /\ task[t].result = <<>>) =>
                   Len(task[t].log) = 1

\* C10 as amended: no call prints more than one line, none with debug disabled;
\* with debug enabled a completed call printed one line exactly when it
\* returned "" for a reason other than empty text or a whitespace-only content.
C10_Diagnostics ==
    \A t \in Tasks :
        Ran(t) =>
            /\ Len(task[t].log) <= 1
            /\ ~task[t].inst[1].debug => task[t].log = <<>>
            /\ (Done(t) /\ task[t].inst[1].debug) =>
                   (Len(task[t].log) = 1
                       <=> (task[t].ret /\ task[t].result = <<>> /\ ~Silent(task[t])))

C10_Witness ==
    \E t, u \in Tasks :
        /\ Ran(t) /\ Done(t) /\ task[t].inst[1].debug
        /\ task[t].body.str = <<" ", " ">> /\ task[t].log = <<>>
        /\ Ran(u) /\ Done(u) /\ task[u].inst[1].debug
        /\ task[u].status = 404 /\ Len(task[u].log) = 1

----------------------------------------------------------------------------
(* Properties of _get_api_url *)

\* path with "/chat/completions" appended, the two joined by exactly one "/"
JoinedPath(path) ==
    (IF path # <<>> /\ path[Len(path)] = "/" THEN SubSeq(path, 1, Len(path) - 1)
     ELSE path) \o <<"/", "chat", "/", "completions">>

\* r parses to the components u parses to, but for the path, which is that of u
\* with the suffix appended
SuffixAppended(u, r) ==
    /\ urlparse(r).ok
    /\ urlparse(r).scheme = urlparse(u).scheme
    /\ urlparse(r).netloc = urlparse(u).netloc
    /\ urlparse(r).query = urlparse(u).query
    /\ urlparse(r).fragment = urlparse(u).fragment
    /\ urlparse(r).path = JoinedPath(urlparse(u).path)

PathIsComplete(u) == urlparse(u).ok /\ EndsWith(urlparse(u).path, ChatCompletions)

\* C6 as stated: every base URL whose path ends with "/chat/completions" is
\* returned unchanged, and every other base URL comes back with the suffix
\* appended to its path by one "/" and the same scheme, authority, query and
\* fragment.
C6_AppendsForEveryUrl ==
    urlPc = "done" =>
        IF PathIsComplete(urlIn) THEN urlOut = urlIn
        ELSE SuffixAppended(urlIn, urlOut)

\* C6 as amended: a base URL that urlparse rejects, or whose path ends with
\* "/chat/completions", is returned unchanged; any other base URL with an
\* authority comes back with the suffix appended to its path by one "/" and the
\* scheme, authority, params, query and fragment it parsed to, and a second
\* normalisation leaves that result unchanged.
C6_Normalised ==
    urlPc = "done" =>
        /\ ~urlparse(urlIn).ok => urlOut = urlIn
        /\ PathIsComplete(urlIn) => urlOut = urlIn
        /\ (urlparse(urlIn).ok /\ ~PathIsComplete(urlIn)
                /\ urlparse(urlIn).netloc # <<>>) =>
               /\ SuffixAppended(urlIn, urlOut)
               /\ urlparse(urlOut).params = urlparse(urlIn).params
               /\ _get_api_url(urlOut) = urlOut

C6_Witness ==
    /\ urlPc = "done"
    /\ urlIn = <<"X", ":", "/", "/", "x", "/", "?", "x", "#", "x">>
    /\ urlOut = <<"x", ":", "/", "/", "x", "/", "chat", "/", "completions",
                  "?", "x", "#", "x">>

----------------------------------------------------------------------------
(* Properties of _build_request_body *)

\* C7: the body has exactly the two messages [system, user]; the system content
\* is the configured prompt, or the default when none (or an empty one) was
\* configured; the user content holds source_lang, target_lang and the text; model
\* and temperature are the configured ones.
C7_RequestBody ==
    bodyPc = "done" =>
        /\ Len(bodyOut[1].messages) = 2
        /\ bodyOut[1].messages[1].role = "system"
        /\ bodyOut[1].messages[2].role = "user"
        /\ bodyOut[1].messages[1].content =
               IF bodyIn.system_prompt \in {None, <<<<>>>>}
               THEN DEFAULT_SYSTEM_PROMPT ELSE bodyIn.system_prompt[1]
        /\ Contains(bodyOut[1].messages[2].content, bodyIn.source_lang)
        /\ Contains(bodyOut[1].messages[2].content, bodyIn.target_lang)
        /\ Contains(bodyOut[1].messages[2].content, bodyIn.text)
        /\ bodyOut[1].model = bodyIn.model
        /\ bodyOut[1].temperature = bodyIn.temperature

C7_Witness ==
    /\ bodyPc = "done"
    /\ bodyIn.system_prompt = <<<<"custom">>>>
    /\ bodyIn.source_lang = <<"e">> /\ bodyIn.target_lang = <<"j">>
    /\ bodyIn.text = <<"h", "QQQ">>
    /\ bodyOut[1].messages[1].content = <<"custom">>
    /\ bodyOut[1].temperature = 20

====
